---- MODULE Spec2Model ----
(***************************************************************************)
(* One poker table of the server (GameEngineService, AntiCheatService,     *)
(* HandHistoryService) together with the gateway that drives it            *)
(* (GameGateway): seats, blinds, betting rounds, stage advancement,        *)
(* showdown, pot distribution, the per-viewer projection, and the          *)
(* disconnect / next-hand timers.                                          *)
(*                                                                         *)
(* Array indices (activePlayerIndex, dealerIndex) keep the 0-based values  *)
(* of the source; players[i] of the source is g.players[i + 1] here.       *)
(* A shuffled deck is a permutation: a card is named by its position in    *)
(* the shuffled deck, and the outcome of the hand evaluation, which        *)
(* depends on the cards only, is an input of the step that reaches it.     *)
(***************************************************************************)
EXTENDS Integers, Sequences, FiniteSets, TLC

\* ---------------------------------------------------------------- bounds
MaxHands == 1
MaxAmount == 3
DeepBuyIn == 10
ShortBuyIn == 7

\* ------------------------------------------------------------- constants
MAX_RAISES_PER_ROUND == 4
SmallBlind == 1
BigBlind == 2
MaxPlayers == 9
MaxPlayersSixMax == 6
MaxLobby == 1
MaxHistoryHands == 103
HistoryBuyIn == 250
MaxLogs == 4
MaxRestartHands == 2
HISTORY_LIMIT == 100
MIN_ACTION_TIME_MS == 100
ACTION_LOG_LIMIT == 100

Ids == {"p1", "p2", "p3"}
Spectator == "__spectator__"
\* The buy-in and the seat each identity asks for when it joins, and the seats
\* it may ask to move to.
BuyInOf(p) == IF p = "p2" THEN 1 ELSE 3
SeatOf(p) == IF p = "p1" THEN 1 ELSE IF p = "p2" THEN 2 ELSE 0
SeatChoices == {3}
\* The identities whose sessions drop and come back, and those that change seats.
Roamers == {"p1"}
Movers == {"p3"}
\* The two identities of the deep-stacked heads-up table.
DeepIds == {"p1", "p3"}
Kinds == {"fold", "check", "call", "raise", "allin"}
Amounts == 0..MaxAmount
BettingTypes == {"NL"}
GameTypes == {"texas"}
DeepBuyIns(p) == IF p = "p1" THEN {ShortBuyIn, DeepBuyIn} ELSE {DeepBuyIn}
\* The identities of the six-seat table, the seat each one asks for (p6 and p7
\* ask for seat 0, which p1 asks for too), and who leaves or changes seat there.
LobbyIds == {"p1", "p2", "p3", "p4", "p5", "p6", "p7"}
LobbySeatOf(p) ==
  CASE p = "p1" -> 0 [] p = "p2" -> 1 [] p = "p3" -> 2 [] p = "p4" -> 3
    [] p = "p5" -> 4 [] OTHER -> 0
LobbyLeavers == {"p1"}
LobbyMovers == {"p2"}
LobbySeatChoices == {5}
LobbyGameTypes == {"royal", "omaha"}
DeepBettingTypes == {"NL", "PL"}
Betting == {"preflop", "flop", "turn", "river"}

VARIABLES game, history, playerSockets, disconnectTimeouts, nextHandTimeouts, lobby,
          actionLogs

vars == <<game, history, playerSockets, disconnectTimeouts, nextHandTimeouts, lobby,
          actionLogs>>

\* --------------------------------------------------------------- helpers
Min(a, b) == IF a < b THEN a ELSE b

Max(a, b) == IF a > b THEN a ELSE b

RECURSIVE SumStacks(_)
SumStacks(s) == IF s = <<>> THEN 0 ELSE Head(s).odStack + SumStacks(Tail(s))

RECURSIVE SumTotalBets(_)
SumTotalBets(s) ==
  IF s = <<>> THEN 0 ELSE Head(s).totalBetThisHand + SumTotalBets(Tail(s))

RECURSIVE SumAmounts(_)
SumAmounts(s) == IF s = <<>> THEN 0 ELSE Head(s).amount + SumAmounts(Tail(s))

\* players.findIndex(p => p.odId === odId): 0-based, -1 when absent.
RECURSIVE FindFrom(_, _, _)
FindFrom(s, id, i) ==
  IF i > Len(s) THEN -1
  ELSE IF s[i].odId = id THEN i - 1
  ELSE FindFrom(s, id, i + 1)

findIndex(s, id) == FindFrom(s, id, 1)

\* players.sort((a, b) => a.seatIndex - b.seatIndex), a stable sort.
RECURSIVE InsertBySeat(_, _)
InsertBySeat(s, p) ==
  IF s = <<>> THEN <<p>>
  ELSE IF p.seatIndex < Head(s).seatIndex THEN <<p>> \o s
  ELSE <<Head(s)>> \o InsertBySeat(Tail(s), p)

RECURSIVE sortBySeat(_)
sortBySeat(s) ==
  IF s = <<>> THEN <<>>
  ELSE InsertBySeat(sortBySeat(SubSeq(s, 1, Len(s) - 1)), s[Len(s)])

\* An array built element by element, as a sequence.
RECURSIVE SeqUpTo(_, _)
SeqUpTo(f, n) == IF n = 0 THEN <<>> ELSE Append(SeqUpTo(f, n - 1), f[n])

AsSeq(f) == SeqUpTo(f, Len(f))

NotFolded(s) == SelectSeq(s, LAMBDA p : ~p.folded)

CanAct(s) == SelectSeq(s, LAMBDA p : ~p.folded /\ ~p.isAllIn)

\* The purge of startHand and endHand: players.filter(p => p.isConnected && p.odStack > 0).
Purged(s) == SelectSeq(s, LAMBDA p : p.isConnected /\ p.odStack > 0)

IdsOf(s) == {s[i].odId : i \in 1..Len(s)}

\* DeckService.drawCards: the next count cards of the shuffled deck; g.deck is the
\* number of cards already drawn from it.
drawCards(deck, count) == AsSeq([k \in 1..count |-> deck + k])

\* ---------------------------------------------------------- table engine
Undefined == [set |-> FALSE, list |-> <<>>]

MAX_PLAYERS_BY_GAME(gameType) ==
  IF gameType \in {"texas", "short_deck"} THEN MaxPlayers ELSE MaxPlayersSixMax

\* createGame as the gateway calls it, without a stake label. maxPlayers and
\* stakeLabel are kept in the table's entry of the games map, beside its state.
\* blinds: the two blinds as fractions small / denominator and big / denominator
\* of a unit. Every amount of a table counts chips of 1 / denominator.
createGame(gameType, bettingType) ==
  [maxPlayers |-> MAX_PLAYERS_BY_GAME(gameType), stakeLabel |-> "",
   blinds |-> [small |-> SmallBlind, big |-> BigBlind, denominator |-> 1],
   stage |-> "waiting", pot |-> 0, communityCards |-> <<>>, currentHighBet |-> 0,
   activePlayerIndex |-> -1, dealerIndex |-> 0, players |-> <<>>,
   gameType |-> gameType, bettingType |-> bettingType,
   raisesThisRound |-> 0, lastRaiseAmount |-> 0, handNumber |-> 0,
   winners |-> Undefined, deck |-> 0]

newPlayer(odId, buyIn, seatIndex) ==
  [odId |-> odId, odStack |-> buyIn, holeCards |-> <<>>, folded |-> FALSE,
   hasActed |-> FALSE, currentRoundBet |-> 0, totalBetThisHand |-> 0,
   seatIndex |-> seatIndex, isAllIn |-> FALSE, isConnected |-> TRUE]

\* postBlind adding the nominal blind to the pot, whatever the poster could pay.
postBlindNominal(g, playerIndex, amount) ==
  LET player == g.players[playerIndex + 1]
      actualAmount == Min(amount, player.odStack)
      posted == [player EXCEPT !.odStack = @ - actualAmount,
                               !.currentRoundBet = actualAmount,
                               !.totalBetThisHand = actualAmount,
                               !.isAllIn = IF player.odStack - actualAmount = 0
                                           THEN TRUE ELSE @]
  IN [g EXCEPT !.players[playerIndex + 1] = posted, !.pot = @ + amount]

postBlind(g, playerIndex, amount) ==
  LET player == g.players[playerIndex + 1]
      actualAmount == Min(amount, player.odStack)
      posted == [player EXCEPT !.odStack = @ - actualAmount,
                               !.currentRoundBet = actualAmount,
                               !.totalBetThisHand = actualAmount,
                               !.isAllIn = IF player.odStack - actualAmount = 0
                                           THEN TRUE ELSE @]
  IN [g EXCEPT !.players[playerIndex + 1] = posted, !.pot = @ + actualAmount]

RECURSIVE SkipLoop(_, _)
SkipLoop(g, loops) ==
  LET p == g.players[g.activePlayerIndex + 1]
  IN IF (p.folded \/ p.isAllIn) /\ loops < Len(g.players)
     THEN SkipLoop([g EXCEPT !.activePlayerIndex = (@ + 1) % Len(g.players)], loops + 1)
     ELSE g

skipFoldedOrAllIn(g) == SkipLoop(g, 0)

cardsPerPlayer(gameType) ==
  IF gameType = "courchevel" THEN 5
  ELSE IF gameType = "pineapple" THEN 3
  ELSE IF gameType \in {"omaha", "omaha_hi_lo"} THEN 4
  ELSE 2

\* startHand returns null (and starts nothing) unless two seats survive the purge.
startHandOk(g) == Len(Purged(g.players)) >= 2

startHand(g) ==
  LET kept == Purged(g.players)
      n == Len(kept)
      cpp == cardsPerPlayer(g.gameType)
      dealer == (g.dealerIndex + 1) % n
      dealt == AsSeq([i \in 1..n |->
                  [kept[i] EXCEPT !.folded = FALSE, !.hasActed = FALSE,
                                  !.currentRoundBet = 0, !.totalBetThisHand = 0,
                                  !.isAllIn = FALSE,
                                  !.holeCards = drawCards((i - 1) * cpp, cpp)]])
      g1 == [g EXCEPT !.players = dealt, !.handNumber = @ + 1, !.stage = "preflop",
                      !.pot = 0, !.communityCards = <<>>, !.currentHighBet = 0,
                      !.raisesThisRound = 0, !.lastRaiseAmount = 0,
                      !.deck = n * cpp, !.dealerIndex = dealer]
      sbIndex == (dealer + 1) % n
      bbIndex == (dealer + 2) % n
      g2 == postBlind(postBlind(g1, sbIndex, SmallBlind), bbIndex, BigBlind)
      g3 == skipFoldedOrAllIn([g2 EXCEPT !.currentHighBet = BigBlind,
                                         !.activePlayerIndex = (bbIndex + 1) % n])
  IN IF n < 2 THEN [g EXCEPT !.players = kept, !.stage = "waiting"]
     ELSE IF g.gameType = "courchevel"
     THEN [g3 EXCEPT !.communityCards = drawCards(g3.deck, 1), !.deck = @ + 1]
     ELSE g3

\* ------------------------------------------------------------ showdown
\* HandEvaluatorService.determineWinners returns, in the order of the players it is
\* given, those whose score is maximal. The scores depend on the cards only, so
\* the set of maximal players is an input: winnerIds is any non-empty set of
\* non-folded seats.
determineWinners(activePlayers, winnerIds) ==
  SelectSeq(activePlayers, LAMBDA p : p.odId \in winnerIds)

WinnerChoices(players) == (SUBSET IdsOf(NotFolded(players))) \ {{}}

\* The award of endHand, before the hand is logged and the seats are purged:
\* the stacks after the award and the list handWinners.
RECURSIVE AwardEach(_, _, _, _, _)
AwardEach(players, ws, i, winAmount, remainder) ==
  IF i > Len(ws) THEN players
  ELSE LET idx == findIndex(players, ws[i].odId)
           amt == winAmount + (IF i = 1 THEN remainder ELSE 0)
       IN AwardEach([players EXCEPT ![idx + 1].odStack = @ + amt],
                    ws, i + 1, winAmount, remainder)

award(g, winnerIds) ==
  LET activePlayers == NotFolded(g.players)
      winners == determineWinners(activePlayers, winnerIds)
      n == Len(winners)
      \* Math.floor(pot / 0) is Infinity and the remainder NaN: with no winner
      \* the forEach awards nothing.
      \* Math.floor(pot / n) is a whole number of units
      winAmount == IF n = 0 THEN 0
                   ELSE (g.pot \div (n * g.blinds.denominator)) * g.blinds.denominator
      remainder == IF n = 0 THEN 0 ELSE g.pot - winAmount * n
  IN IF Len(activePlayers) = 1
     THEN [players |-> [g.players EXCEPT
                          ![findIndex(g.players, activePlayers[1].odId) + 1].odStack =
                              @ + g.pot],
           handWinners |-> <<[odId |-> activePlayers[1].odId, amount |-> g.pot]>>]
     ELSE [players |-> AwardEach(g.players, winners, 1, winAmount, remainder),
           handWinners |-> AsSeq([i \in 1..n |->
                              [odId |-> winners[i].odId,
                               amount |-> winAmount + (IF i = 1 THEN remainder ELSE 0)]])]

\* endHand leaving the table in waiting however many seats survive the purge.
endHandToWaiting(g, winnerIds) ==
  LET a == award(g, winnerIds)
  IN [g EXCEPT !.stage = "waiting", !.activePlayerIndex = -1, !.pot = 0,
               !.players = Purged(a.players), !.winners = Undefined]

endHand(g, winnerIds) ==
  LET a == award(g, winnerIds)
      kept == Purged(a.players)
      g1 == [g EXCEPT !.stage = "showdown", !.activePlayerIndex = -1, !.pot = 0,
                      !.players = kept,
                      !.winners = [set |-> TRUE, list |-> a.handWinners]]
  IN IF Len(kept) < 2
     THEN [g1 EXCEPT !.stage = "waiting", !.winners = Undefined]
     ELSE g1

\* runOutCards ending the hand on the board as it stands.
runOutCardsShort(g, winnerIds) == endHand(g, winnerIds)

RECURSIVE RunOutLoop(_)
RunOutLoop(g) ==
  IF g.stage # "showdown" /\ Len(g.communityCards) < 5
  THEN IF g.stage = "preflop"
       THEN RunOutLoop([g EXCEPT !.communityCards = @ \o drawCards(g.deck, 3),
                                 !.deck = @ + 3, !.stage = "flop"])
       ELSE RunOutLoop([g EXCEPT !.communityCards = @ \o drawCards(g.deck, 1),
                                 !.deck = @ + 1,
                                 !.stage = IF g.stage = "flop" THEN "turn"
                                           ELSE IF g.stage = "turn" THEN "river"
                                           ELSE "showdown"])
  ELSE g

runOutCards(g, winnerIds) == endHand(RunOutLoop(g), winnerIds)

advanceStage(g, winnerIds) ==
  LET reset == [g EXCEPT !.players = AsSeq([i \in 1..Len(g.players) |->
                                        [g.players[i] EXCEPT
                                           !.currentRoundBet = 0,
                                           !.hasActed = g.players[i].folded
                                                        \/ g.players[i].isAllIn]]),
                         !.currentHighBet = 0, !.raisesThisRound = 0,
                         !.lastRaiseAmount = 0]
      flopCards == IF g.gameType = "courchevel" THEN 2 ELSE 3
      flop == drawCards(g.deck, flopCards)
      next == IF g.stage = "preflop"
              THEN [reset EXCEPT !.stage = "flop",
                                 !.communityCards = IF g.gameType = "courchevel"
                                                    THEN @ \o flop ELSE flop,
                                 !.deck = @ + flopCards]
              ELSE [reset EXCEPT !.stage = IF g.stage = "flop" THEN "turn" ELSE "river",
                                 !.communityCards = @ \o drawCards(g.deck, 1),
                                 !.deck = @ + 1]
  IN IF g.stage = "river" THEN endHand(reset, winnerIds)
     ELSE skipFoldedOrAllIn([next EXCEPT !.activePlayerIndex =
                                           (g.dealerIndex + 1) % Len(g.players)])

\* The betting round is complete: every seat that can act has acted and matches
\* the high bet (Math.abs(bet - high) < 0.01 on whole chips is equality).
roundComplete(g) ==
  \A i \in 1..Len(g.players) :
    LET p == g.players[i]
    IN (~p.folded /\ ~p.isAllIn) => (p.hasActed /\ p.currentRoundBet = g.currentHighBet)

advanceGame(g, winnerIds) ==
  IF Len(NotFolded(g.players)) = 1 THEN endHand(g, winnerIds)
  ELSE IF roundComplete(g)
  THEN IF Len(CanAct(g.players)) <= 1 THEN runOutCards(g, winnerIds)
       ELSE advanceStage(g, winnerIds)
  ELSE skipFoldedOrAllIn([g EXCEPT !.activePlayerIndex = (@ + 1) % Len(g.players)])

\* Whether advanceGame reaches the evaluator (an endHand with other than one
\* non-folded seat) from g, so that the choice of winners matters.
reachesShowdown(g) ==
  /\ Len(NotFolded(g.players)) # 1
  /\ roundComplete(g)
  /\ (Len(CanAct(g.players)) <= 1 \/ g.stage = "river")

\* ------------------------------------------------------------ evaluator
\* A card by its value (2..14, the ace 14) and its suit. Where a table plays
\* with drawn cards, hole cards and board are sequences of such cards.
Card(value, suit) == [value |-> value, suit |-> suit]

Suits == {"s", "h", "c", "d"}

CardsOf(s) == {s[i] : i \in 1..Len(s)}

SetMax(S) == CHOOSE x \in S : \A y \in S : y <= x

SetMin(S) == CHOOSE x \in S : \A y \in S : x <= y

\* getCombinations(array, size), as a set of sets.
getCombinations(S, size) == {T \in SUBSET S : Cardinality(T) = size}

\* [...values].sort((a, b) => b - a) for distinct values.
RECURSIVE SortDesc(_)
SortDesc(S) ==
  IF S = {} THEN <<>> ELSE <<SetMax(S)>> \o SortDesc(S \ {SetMax(S)})

\* evaluate5CardHand for a set of five cards: rank, score and description.
evaluate5CardHand(cards, gameType) ==
  LET values == {c.value : c \in cards}
      counts(v) == Cardinality({c \in cards : c.value = v})
      isFlush == \E s \in Suits : Cardinality({c \in cards : c.suit = s}) >= 5
      \* the highest card of the flush suit
      flushScore == 600 + SetMax(values)
      fours == {v \in values : counts(v) = 4}
      threes == {v \in values : counts(v) = 3}
      pairs == {v \in values : counts(v) = 2}
      isRun == Cardinality(values) = 5 /\ SetMax(values) - SetMin(values) = 4
      isWheel == ~isRun /\ {14, 2, 3, 4, 5} \subseteq values
      isStraight == isRun \/ isWheel
      straightHigh == IF isRun THEN SetMax(values) ELSE 5
      \* the five flush cards hold five values in a row
      isStraightFlush == isFlush /\ isStraight
                           /\ SetMax(values) - SetMin(values) = 4
      hand(rank, score, description) ==
        [rank |-> rank, score |-> score, description |-> description]
      shortDeck == gameType = "short_deck"
  IN IF isStraightFlush /\ SetMax(values) = 14 THEN hand(10, 1000, "Royal Flush")
     ELSE IF isStraightFlush THEN hand(9, 900 + SetMax(values), "Straight Flush")
     ELSE IF fours # {} THEN hand(8, 800 + SetMin(fours), "Four of a Kind")
     ELSE IF shortDeck /\ isFlush THEN hand(7, flushScore + 100, "Flush")
     ELSE IF threes # {} /\ pairs # {}
     THEN hand(IF shortDeck THEN 6 ELSE 7, 700 + SetMax(threes), "Full House")
     ELSE IF isFlush THEN hand(6, flushScore, "Flush")
     ELSE IF isStraight THEN hand(5, 500 + straightHigh, "Straight")
     ELSE IF threes # {} THEN hand(4, 400 + SetMax(threes), "Three of a Kind")
     ELSE IF Cardinality(pairs) >= 2
     THEN hand(3, 300 + SetMax(pairs) * 15 + SetMax(pairs \ {SetMax(pairs)}),
               "Two Pair")
     ELSE IF Cardinality(pairs) = 1 THEN hand(2, 200 + SetMax(pairs), "Pair")
     ELSE hand(1, 100 + SetMax(values), "High Card")

\* The five-card hands evaluateHand and evaluateLowHand look at: two hole
\* cards with three board cards in the Omaha family, any five cards otherwise.
OmahaFamily(gameType) == gameType \in {"omaha", "omaha_hi_lo", "courchevel"}

OmahaCombos(holeCards, communityCards) ==
  {h \cup b : h \in getCombinations(CardsOf(holeCards), 2),
              b \in getCombinations(CardsOf(communityCards), 3)}

\* evaluateHand: the result of the highest rank and, within the rank, of the
\* highest score.
evaluateHand(holeCards, communityCards, gameType) ==
  LET waiting == [rank |-> 0, score |-> 0, description |-> "Waiting..."]
      tooFew == IF OmahaFamily(gameType)
                THEN Len(holeCards) < 2 \/ Len(communityCards) < 3
                ELSE Len(holeCards) + Len(communityCards) < 5
      combos == IF OmahaFamily(gameType)
                THEN OmahaCombos(holeCards, communityCards)
                ELSE getCombinations(CardsOf(holeCards) \cup CardsOf(communityCards), 5)
      results == {evaluate5CardHand(five, gameType) : five \in combos}
  IN IF tooFew THEN waiting
     ELSE CHOOSE r \in results :
            \A q \in results :
              q.rank < r.rank \/ (q.rank = r.rank /\ q.score <= r.score)

\* lowVal: the ace counts 1.
lowVal(c) == IF c.value = 14 THEN 1 ELSE c.value

\* better(a, b): a is lower than b at the first place where they differ.
better(a, b) ==
  \E i \in 1..5 : a[i] < b[i] /\ \A k \in 1..(i - 1) : a[k] = b[k]

\* evaluateLowHand: the best five distinct values of eight or less, if any.
evaluateLowHand(holeCards, communityCards) ==
  LET lows == {SortDesc({lowVal(c) : c \in five}) :
                 five \in {f \in OmahaCombos(holeCards, communityCards) :
                             /\ Cardinality({lowVal(c) : c \in f}) = 5
                             /\ \A c \in f : lowVal(c) <= 8}}
  IN IF Len(holeCards) < 2 \/ Len(communityCards) < 3 \/ lows = {}
     THEN [qualifies |-> FALSE, values |-> <<>>]
     ELSE [qualifies |-> TRUE,
           values |-> CHOOSE v \in lows : \A u \in lows : ~better(u, v)]

\* HandEvaluatorService.determineWinners on drawn cards: the seats that have
\* not folded whose score is the highest.
scoreWinners(players, communityCards, gameType) ==
  LET activePlayers == NotFolded(players)
      score(i) == evaluateHand(activePlayers[i].holeCards, communityCards,
                               gameType).score
  IN {activePlayers[i].odId : i \in {k \in 1..Len(activePlayers) :
                                       \A m \in 1..Len(activePlayers) :
                                         score(m) <= score(k)}}

\* ------------------------------------------------------------ anti-cheat
\* AntiCheatService.validateAction. The rate limit reads the server clock and the
\* timing floor the client's timestamp: whether the two pass is the input
\* clockOk. The other four validations read the table state.
validatePlayerTurn(g, odId) ==
  /\ findIndex(g.players, odId) # -1
  /\ findIndex(g.players, odId) = g.activePlayerIndex

validateActionType(g, odId, kind) ==
  LET player == g.players[findIndex(g.players, odId) + 1]
  IN ~(kind = "check" /\ g.currentHighBet - player.currentRoundBet > 0)

validateBetAmount(g, odId, kind, amount) ==
  LET player == g.players[findIndex(g.players, odId) + 1]
      toCall == g.currentHighBet - player.currentRoundBet
  IN \/ kind # "raise"
     \/ amount = 0
     \/ /\ amount <= player.odStack + player.currentRoundBet
        /\ amount > g.currentHighBet
        /\ ~(g.lastRaiseAmount > 0 /\ amount - g.currentHighBet < g.lastRaiseAmount)
        /\ (g.bettingType = "PL" => amount <= g.pot + g.currentHighBet + toCall)

validatePlayerState(g, odId) ==
  LET player == g.players[findIndex(g.players, odId) + 1]
  IN ~player.folded /\ ~player.isAllIn

validateAction(g, odId, kind, amount, clockOk) ==
  /\ clockOk
  /\ validatePlayerTurn(g, odId)
  /\ validateActionType(g, odId, kind)
  /\ validateBetAmount(g, odId, kind, amount)
  /\ validatePlayerState(g, odId)

\* validateTiming: the timestamp the client put in the action against the
\* timestamp of the last entry of the player's log, accepted or not.
validateTiming(logs, timestamp) ==
  \/ logs = <<>>
  \/ timestamp - logs[Len(logs)].timestamp >= MIN_ACTION_TIME_MS

\* logAction: every validated action is logged with the verdict; the log keeps
\* the last entries.
logAction(logs, timestamp, isValid) ==
  LET pushed == Append(logs, [timestamp |-> timestamp, isValid |-> isValid])
  IN IF Len(pushed) > ACTION_LOG_LIMIT THEN Tail(pushed) ELSE pushed

\* --------------------------------------------------------- processAction
\* The guards of processAction without the check of the stage.
engineGuardsAnyStage(g, odId) ==
  LET playerIndex == findIndex(g.players, odId)
  IN /\ playerIndex # -1
     /\ playerIndex = g.activePlayerIndex
     /\ ~g.players[playerIndex + 1].folded
     /\ ~g.players[playerIndex + 1].isAllIn

\* The guards of processAction that follow the anti-cheat validation.
engineGuards(g, odId) ==
  LET playerIndex == findIndex(g.players, odId)
  IN /\ playerIndex # -1
     /\ playerIndex = g.activePlayerIndex
     /\ g.stage \notin {"waiting", "showdown"}
     /\ ~g.players[playerIndex + 1].folded
     /\ ~g.players[playerIndex + 1].isAllIn

\* The guards of the switch: a check facing a bet, and the checks of a raise.
kindGuards(g, odId, kind, amount) ==
  LET player == g.players[findIndex(g.players, odId) + 1]
      toCall == g.currentHighBet - player.currentRoundBet
  IN CASE kind = "check" -> ~(toCall > 0)
       [] kind = "raise" ->
            /\ ~(amount <= g.currentHighBet)
            /\ ~(g.lastRaiseAmount > 0 /\ amount - g.currentHighBet < g.lastRaiseAmount)
            /\ ~(g.raisesThisRound >= MAX_RAISES_PER_ROUND)
            /\ (g.bettingType = "PL" => ~(amount > g.pot + g.currentHighBet + toCall))
       [] OTHER -> TRUE

\* Reset hasActed for the other players that can still act.
reopen(players, playerIndex) ==
  AsSeq([i \in 1..Len(players) |->
     IF i # playerIndex + 1 /\ ~players[i].folded /\ ~players[i].isAllIn
     THEN [players[i] EXCEPT !.hasActed = FALSE]
     ELSE players[i]])

\* The switch of processAction: the state after the action of the given kind,
\* before advanceGame.
applyAction(g, odId, kind, amount) ==
  LET playerIndex == findIndex(g.players, odId)
      k == playerIndex + 1
      player == g.players[k]
      toCall == g.currentHighBet - player.currentRoundBet
      callAmount == Min(toCall, player.odStack)
      raiseIncrement == amount - g.currentHighBet
      actualContribution == Min(amount - player.currentRoundBet, player.odStack)
      allInAmount == player.odStack
      allInRaises == player.currentRoundBet + allInAmount > g.currentHighBet
  IN CASE kind = "fold" ->
            [g EXCEPT !.players[k].folded = TRUE, !.players[k].hasActed = TRUE]
       [] kind = "check" ->
            [g EXCEPT !.players[k].hasActed = TRUE]
       [] kind = "call" ->
            [g EXCEPT !.players[k].odStack = @ - callAmount,
                      !.players[k].currentRoundBet = @ + callAmount,
                      !.players[k].totalBetThisHand = @ + callAmount,
                      !.players[k].hasActed = TRUE,
                      !.players[k].isAllIn = IF player.odStack - callAmount = 0
                                             THEN TRUE ELSE @,
                      !.pot = @ + callAmount]
       [] kind = "raise" ->
            [g EXCEPT !.players =
                        [reopen(g.players, playerIndex) EXCEPT
                           ![k].odStack = @ - actualContribution,
                           ![k].currentRoundBet = @ + actualContribution,
                           ![k].totalBetThisHand = @ + actualContribution,
                           ![k].hasActed = TRUE,
                           ![k].isAllIn = IF player.odStack - actualContribution = 0
                                          THEN TRUE ELSE @],
                      !.pot = @ + actualContribution,
                      !.currentHighBet = player.currentRoundBet + actualContribution,
                      !.lastRaiseAmount = raiseIncrement,
                      !.raisesThisRound = @ + 1]
       [] kind = "allin" ->
            [g EXCEPT !.players =
                        [(IF allInRaises THEN reopen(g.players, playerIndex)
                          ELSE g.players) EXCEPT
                           ![k].odStack = 0,
                           ![k].currentRoundBet = @ + allInAmount,
                           ![k].totalBetThisHand = @ + allInAmount,
                           ![k].isAllIn = TRUE,
                           ![k].hasActed = TRUE],
                      !.pot = @ + allInAmount,
                      !.lastRaiseAmount =
                        IF allInRaises
                        THEN (player.currentRoundBet + allInAmount) - g.currentHighBet
                        ELSE @,
                      !.currentHighBet =
                        IF allInRaises THEN player.currentRoundBet + allInAmount ELSE @,
                      !.raisesThisRound = IF allInRaises THEN @ + 1 ELSE @]

\* The acceptance test of processAction without the minimum-raise checks.
actionAcceptedNoFloor(g, odId, kind, amount, clockOk) ==
  LET player == g.players[findIndex(g.players, odId) + 1]
      toCall == g.currentHighBet - player.currentRoundBet
  IN /\ clockOk
     /\ validatePlayerTurn(g, odId)
     /\ validateActionType(g, odId, kind)
     /\ validatePlayerState(g, odId)
     /\ engineGuards(g, odId)
     /\ kind = "raise" =>
          /\ amount <= player.odStack + player.currentRoundBet
          /\ amount > g.currentHighBet
          /\ g.raisesThisRound < MAX_RAISES_PER_ROUND
          /\ (g.bettingType = "PL" => amount <= g.pot + g.currentHighBet + toCall)

\* The acceptance test of processAction without the pot-limit checks.
actionAcceptedNoPotLimit(g, odId, kind, amount, clockOk) ==
  LET player == g.players[findIndex(g.players, odId) + 1]
  IN /\ clockOk
     /\ validatePlayerTurn(g, odId)
     /\ validateActionType(g, odId, kind)
     /\ validatePlayerState(g, odId)
     /\ engineGuards(g, odId)
     /\ kind = "raise" =>
          /\ amount <= player.odStack + player.currentRoundBet
          /\ amount > g.currentHighBet
          /\ ~(g.lastRaiseAmount > 0 /\ amount - g.currentHighBet < g.lastRaiseAmount)
          /\ g.raisesThisRound < MAX_RAISES_PER_ROUND

actionAccepted(g, odId, kind, amount, clockOk) ==
  /\ validateAction(g, odId, kind, amount, clockOk)
  /\ engineGuards(g, odId)
  /\ kindGuards(g, odId, kind, amount)

\* processAction applying the action before the guards of the switch.
processActionUnchecked(g, odId, kind, amount, clockOk, winnerIds) ==
  IF validateAction(g, odId, kind, amount, clockOk) /\ engineGuards(g, odId)
  THEN IF kindGuards(g, odId, kind, amount)
       THEN advanceGame(applyAction(g, odId, kind, amount), winnerIds)
       ELSE applyAction(g, odId, kind, amount)
  ELSE g

processAction(g, odId, kind, amount, clockOk, winnerIds) ==
  IF actionAccepted(g, odId, kind, amount, clockOk)
  THEN advanceGame(applyAction(g, odId, kind, amount), winnerIds)
  ELSE g

\* Whether advanceGame ends the hand (calls endHand) from g.
endsHand(g) ==
  \/ Len(NotFolded(g.players)) = 1
  \/ roundComplete(g) /\ (Len(CanAct(g.players)) <= 1 \/ g.stage = "river")

\* ------------------------------------------------- seats and projection
lowestFreeSeat(players, maxPlayers) ==
  LET free == {i \in 0..(maxPlayers - 1) : \A k \in 1..Len(players) : players[k].seatIndex # i}
  IN CHOOSE i \in free : \A j \in free : i <= j

\* addPlayer seating the newcomer on the seat it asks for, taken or not.
addPlayerAnySeat(g, odId, buyIn, seatIndex) ==
  LET idx == findIndex(g.players, odId)
      seated == [g EXCEPT !.players =
                   sortBySeat(Append(g.players, newPlayer(odId, buyIn, seatIndex)))]
      autoStart == Len(seated.players) >= 2 /\ seated.stage = "waiting"
  IN IF idx # -1
     THEN IF ~g.players[idx + 1].isConnected
          THEN [ok |-> TRUE, started |-> FALSE,
                g |-> [g EXCEPT !.players[idx + 1].isConnected = TRUE]]
          ELSE [ok |-> FALSE, started |-> FALSE, g |-> g]
     ELSE IF Len(g.players) >= g.maxPlayers
     THEN [ok |-> FALSE, started |-> FALSE, g |-> g]
     ELSE [ok |-> TRUE, started |-> autoStart /\ startHandOk(seated),
           g |-> IF autoStart THEN startHand(seated) ELSE seated]

\* addPlayer seating a returning identity afresh, with the buy-in of the request.
addPlayerReseat(g, odId, buyIn, seatIndex) ==
  LET idx == findIndex(g.players, odId)
      isSeatTaken == \E k \in 1..Len(g.players) : g.players[k].seatIndex = seatIndex
      target == IF isSeatTaken THEN lowestFreeSeat(g.players, g.maxPlayers) ELSE seatIndex
      seated == [g EXCEPT !.players =
                   sortBySeat(Append(g.players, newPlayer(odId, buyIn, target)))]
      autoStart == Len(seated.players) >= 2 /\ seated.stage = "waiting"
  IN IF idx # -1
     THEN IF ~g.players[idx + 1].isConnected
          THEN [ok |-> TRUE, started |-> FALSE,
                g |-> [g EXCEPT !.players[idx + 1] =
                         newPlayer(odId, buyIn, g.players[idx + 1].seatIndex)]]
          ELSE [ok |-> FALSE, started |-> FALSE, g |-> g]
     ELSE IF Len(g.players) >= g.maxPlayers
     THEN [ok |-> FALSE, started |-> FALSE, g |-> g]
     ELSE [ok |-> TRUE, started |-> autoStart /\ startHandOk(seated),
           g |-> IF autoStart THEN startHand(seated) ELSE seated]

\* addPlayer: ok is its return value, started whether it went on to start a hand.
addPlayer(g, odId, buyIn, seatIndex) ==
  LET idx == findIndex(g.players, odId)
      isSeatTaken == \E k \in 1..Len(g.players) : g.players[k].seatIndex = seatIndex
      target == IF isSeatTaken THEN lowestFreeSeat(g.players, g.maxPlayers) ELSE seatIndex
      seated == [g EXCEPT !.players =
                   sortBySeat(Append(g.players, newPlayer(odId, buyIn, target)))]
      autoStart == Len(seated.players) >= 2 /\ seated.stage = "waiting"
  IN IF idx # -1
     THEN IF ~g.players[idx + 1].isConnected
          THEN [ok |-> TRUE, started |-> FALSE,
                g |-> [g EXCEPT !.players[idx + 1].isConnected = TRUE]]
          ELSE [ok |-> FALSE, started |-> FALSE, g |-> g]
     ELSE IF Len(g.players) >= g.maxPlayers
     THEN [ok |-> FALSE, started |-> FALSE, g |-> g]
     ELSE [ok |-> TRUE, started |-> autoStart /\ startHandOk(seated),
           g |-> IF autoStart THEN startHand(seated) ELSE seated]

removePlayerOk(g, odId) == findIndex(g.players, odId) # -1

removePlayer(g, odId) ==
  LET idx == findIndex(g.players, odId)
  IN IF idx = -1 THEN g
     ELSE IF g.stage # "waiting"
     THEN [g EXCEPT !.players[idx + 1].folded = TRUE,
                    !.players[idx + 1].isConnected = FALSE]
     ELSE [g EXCEPT !.players = SelectSeq(g.players, LAMBDA p : p.odId # odId)]

changeSeatOk(g, odId, newSeatIndex) ==
  /\ g.stage \in {"waiting", "showdown"}
  /\ \A k \in 1..Len(g.players) : g.players[k].seatIndex # newSeatIndex
  /\ findIndex(g.players, odId) # -1

changeSeat(g, odId, newSeatIndex) ==
  IF changeSeatOk(g, odId, newSeatIndex)
  THEN [g EXCEPT !.players =
          sortBySeat([g.players EXCEPT
                        ![findIndex(g.players, odId) + 1].seatIndex = newSeatIndex])]
  ELSE g

\* getClientState showing the cards of every seat still in the hand at any stage.
getClientStateOpen(g, odId) ==
  LET idx == findIndex(g.players, odId)
      connected == SelectSeq(g.players, LAMBDA p : p.isConnected)
  IN [stage |-> g.stage, pot |-> g.pot, communityCards |-> g.communityCards,
      currentHighBet |-> g.currentHighBet,
      activePlayerIndex |-> g.activePlayerIndex, dealerIndex |-> g.dealerIndex,
      players |-> AsSeq([i \in 1..Len(connected) |->
                     [odId |-> connected[i].odId, odStack |-> connected[i].odStack,
                      folded |-> connected[i].folded,
                      currentRoundBet |-> connected[i].currentRoundBet,
                      seatIndex |-> connected[i].seatIndex,
                      isAllIn |-> connected[i].isAllIn,
                      holeCards |-> IF ~connected[i].folded
                                    THEN connected[i].holeCards ELSE <<>>]]),
      myHoleCards |-> IF idx # -1 THEN g.players[idx + 1].holeCards ELSE <<>>,
      mySeatIndex |-> IF idx # -1 THEN g.players[idx + 1].seatIndex ELSE -1,
      handNumber |-> g.handNumber, winners |-> g.winners]

\* getClientState: the projection of the table for the viewer odId.
getClientState(g, odId) ==
  LET idx == findIndex(g.players, odId)
      connected == SelectSeq(g.players, LAMBDA p : p.isConnected)
  IN [stage |-> g.stage, pot |-> g.pot, communityCards |-> g.communityCards,
      currentHighBet |-> g.currentHighBet,
      activePlayerIndex |-> g.activePlayerIndex, dealerIndex |-> g.dealerIndex,
      players |-> AsSeq([i \in 1..Len(connected) |->
                     [odId |-> connected[i].odId, odStack |-> connected[i].odStack,
                      folded |-> connected[i].folded,
                      currentRoundBet |-> connected[i].currentRoundBet,
                      seatIndex |-> connected[i].seatIndex,
                      isAllIn |-> connected[i].isAllIn,
                      holeCards |-> IF g.stage = "showdown" /\ ~connected[i].folded
                                    THEN connected[i].holeCards ELSE <<>>]]),
      myHoleCards |-> IF idx # -1 THEN g.players[idx + 1].holeCards ELSE <<>>,
      mySeatIndex |-> IF idx # -1 THEN g.players[idx + 1].seatIndex ELSE -1,
      handNumber |-> g.handNumber, winners |-> g.winners]

\* ---------------------------------------------------------- hand history
\* HandHistoryService.startNewHand, for the table g just after startHand: a seat's
\* stack before the blinds is odStack + totalBetThisHand.
startNewHand(h, g) ==
  LET record == [handNumber |-> g.handNumber,
                 players |-> AsSeq([i \in 1..Len(g.players) |->
                                [odId |-> g.players[i].odId,
                                 odStack |-> g.players[i].odStack
                                             + g.players[i].totalBetThisHand]]),
                 pot |-> 0, winners |-> <<>>]
  IN Append(IF Len(h) > HISTORY_LIMIT THEN Tail(h) ELSE h, record)

RECURSIVE FindHand(_, _, _)
FindHand(h, handNumber, i) ==
  IF i > Len(h) THEN 0
  ELSE IF h[i].handNumber = handNumber THEN i
  ELSE FindHand(h, handNumber, i + 1)

\* HandHistoryService.logEndHand: the first record with the hand number gets the
\* pot and the winners.
logEndHand(h, handNumber, pot, handWinners) ==
  LET i == FindHand(h, handNumber, 1)
  IN IF i = 0 THEN h
     ELSE [h EXCEPT ![i].pot = pot, ![i].winners = handWinners]

\* ---------------------------------------------------------------- gateway
\* nextHandTimeouts holds the table's entry of the map of that name (has) and the
\* number of timers set by setTimeout that have not fired yet (live).

\* scheduleNextHand setting a timer whether or not one is pending.
scheduleNextHandAgain(g, pending) ==
  IF g.stage # "showdown" \/ Len(g.players) < 2 THEN pending
  ELSE [has |-> TRUE, live |-> pending.live + 1]

\* scheduleNextHand, called at the end of every broadcastGameState.
scheduleNextHand(g, pending) ==
  IF g.stage # "showdown" \/ Len(g.players) < 2 THEN pending
  ELSE IF pending.has THEN pending
  ELSE [has |-> TRUE, live |-> pending.live + 1]

\* lobby holds the other tables of the engine's games map, each by its class
\* (gameType, stakeLabel), its number of seats and its seat cap.
tableEntry(gameType, stakeLabel, seats) ==
  [gameType |-> gameType, stakeLabel |-> stakeLabel, seats |-> seats,
   maxPlayers |-> MAX_PLAYERS_BY_GAME(gameType)]

\* The games map as ensureAvailableTable reads it: the table of the model with
\* the given number of seats, then the other tables.
allTables(g, seats, others) ==
  <<tableEntry(g.gameType, g.stakeLabel, seats)>> \o others

\* ensureAvailableTable reporting a free table whatever the seat counts.
ensureAvailableTableNever(tables, gameType, stakeLabel) == tables

\* ensureAvailableTable: a new system table of the class when none of its
\* tables has a free seat.
ensureAvailableTable(tables, gameType, stakeLabel) ==
  LET tablesForStake ==
        SelectSeq(tables, LAMBDA t : t.gameType = gameType /\ t.stakeLabel = stakeLabel)
      hasAvailableTable ==
        \E i \in 1..Len(tablesForStake) :
          tablesForStake[i].seats < tablesForStake[i].maxPlayers
  IN IF hasAvailableTable THEN tables
     ELSE Append(tables, tableEntry(gameType, stakeLabel, 0))

\* ---------------------------------------------------------------- actions
\* An identity may hold several sessions and open a new one at any time, so it
\* can send a message in every state. playerSockets is the set of identities
\* with a session mapped to the table.

\* The logs kept per player and table; clearPlayerData is called nowhere.
NoLogs == [p \in LobbyIds |-> <<>>]

\* A step may start a hand only while fewer than MaxHands hands were started.
MayStart == Len(history) < MaxHands

Init ==
  /\ game = createGame("texas", "NL")
  /\ history = <<>>
  /\ playerSockets = {}
  /\ disconnectTimeouts = {}
  /\ nextHandTimeouts = [has |-> FALSE, live |-> 0]
  /\ lobby = <<>>
  /\ actionLogs = NoLogs

\* handleConnection: an authenticated session opens; a pending grace timer of the
\* identity is cancelled.
HandleConnection(p) ==
  /\ p \in disconnectTimeouts
  /\ disconnectTimeouts' = disconnectTimeouts \ {p}
  /\ UNCHANGED <<game, history, playerSockets, nextHandTimeouts, lobby, actionLogs>>

\* handleDisconnect of a session in playerSockets: the seat is marked
\* disconnected and the grace timer (re)started. Closing any other session
\* changes nothing.
HandleDisconnect(p) ==
  LET idx == findIndex(game.players, p)
  IN /\ p \in playerSockets
     /\ playerSockets' = playerSockets \ {p}
     /\ game' = IF idx = -1 THEN game
                ELSE [game EXCEPT !.players[idx + 1].isConnected = FALSE]
     /\ nextHandTimeouts' = scheduleNextHand(game', nextHandTimeouts)
     /\ disconnectTimeouts' = disconnectTimeouts \cup {p}
     /\ UNCHANGED <<history, lobby, actionLogs>>

\* The grace timer of handleDisconnect fires.
GraceExpiry(p) ==
  /\ p \in disconnectTimeouts
  /\ game' = removePlayer(game, p)
  /\ disconnectTimeouts' = disconnectTimeouts \ {p}
  /\ nextHandTimeouts' = scheduleNextHand(game', nextHandTimeouts)
  /\ UNCHANGED <<history, playerSockets, lobby, actionLogs>>

\* handleCreateTable: createGame under the table's id, whether or not it exists.
HandleCreateTable(gameType, bettingType) ==
  /\ game' = createGame(gameType, bettingType)
  /\ UNCHANGED <<history, playerSockets, disconnectTimeouts, nextHandTimeouts, lobby, actionLogs>>

HandleJoinTable(p, buyIn, seatIndex) ==
  LET r == addPlayer(game, p, buyIn, seatIndex)
      seated == r.ok /\ findIndex(game.players, p) = -1
  IN /\ r.started => MayStart
     /\ lobby' = IF seated
                 THEN Tail(ensureAvailableTable(
                             allTables(game, Len(game.players) + 1, lobby),
                             game.gameType, game.stakeLabel))
                 ELSE lobby
     /\ Len(lobby') <= MaxLobby
     /\ disconnectTimeouts' = disconnectTimeouts \ {p}
     /\ game' = r.g
     /\ history' = IF r.started THEN startNewHand(history, r.g) ELSE history
     /\ playerSockets' = IF r.ok THEN playerSockets \cup {p} ELSE playerSockets
     /\ nextHandTimeouts' = IF r.ok THEN scheduleNextHand(r.g, nextHandTimeouts)
                            ELSE nextHandTimeouts
     /\ UNCHANGED actionLogs

\* handleLeaveTable: the session that leaves is dropped from playerSockets.
HandleLeaveTable(p) ==
  /\ game' = removePlayer(game, p)
  /\ playerSockets' = IF removePlayerOk(game, p) THEN playerSockets \ {p}
                      ELSE playerSockets
  /\ nextHandTimeouts' = IF removePlayerOk(game, p)
                         THEN scheduleNextHand(game', nextHandTimeouts)
                         ELSE nextHandTimeouts
  /\ UNCHANGED <<history, disconnectTimeouts, lobby, actionLogs>>

\* handleStartHand: startHand at any stage, from any session.
StartHandEffects ==
  /\ game' = startHand(game)
  /\ history' = IF startHandOk(game) THEN startNewHand(history, game') ELSE history
  /\ nextHandTimeouts' = IF startHandOk(game)
                         THEN scheduleNextHand(game', nextHandTimeouts)
                         ELSE nextHandTimeouts
  /\ UNCHANGED <<playerSockets, disconnectTimeouts, lobby, actionLogs>>

HandleStartHand ==
  /\ startHandOk(game) => MayStart
  /\ StartHandEffects

\* handleStartHand on a table that may see MaxRestartHands hands.
HandleStartHandLong ==
  /\ startHandOk(game) => game.handNumber < MaxRestartHands
  /\ StartHandEffects

\* handleAction; winnerIds is the evaluator's verdict should the hand reach it.
ActionEffects(p, kind, amount, clockOk, winnerIds) ==
  LET ok == actionAccepted(game, p, kind, amount, clockOk)
      applied == applyAction(game, p, kind, amount)
  IN /\ game' = processAction(game, p, kind, amount, clockOk, winnerIds)
     /\ history' = IF ok /\ endsHand(applied)
                   THEN logEndHand(history, applied.handNumber, applied.pot,
                                   award(applied, winnerIds).handWinners)
                   ELSE history
     /\ nextHandTimeouts' = IF ok THEN scheduleNextHand(game', nextHandTimeouts)
                            ELSE nextHandTimeouts
     /\ UNCHANGED <<playerSockets, disconnectTimeouts, lobby>>

\* handleAction with the verdict of the rate limit and of the timing floor
\* given as clockOk: the logs of the anti-cheat service are not followed.
ActionStep(p, kind, amount, clockOk, winnerIds) ==
  /\ ActionEffects(p, kind, amount, clockOk, winnerIds)
  /\ UNCHANGED actionLogs

VerdictChoices(g, p, kind, amount, clockOk) ==
  IF actionAccepted(g, p, kind, amount, clockOk)
     /\ reachesShowdown(applyAction(g, p, kind, amount))
     /\ Len(NotFolded(applyAction(g, p, kind, amount).players)) >= 2
  THEN WinnerChoices(applyAction(g, p, kind, amount).players)
  ELSE {{}}

HandleAction(p, kind, amount, clockOk) ==
  \E winnerIds \in VerdictChoices(game, p, kind, amount, clockOk) :
    ActionStep(p, kind, amount, clockOk, winnerIds)

RECURSIVE CountLogs(_, _)
CountLogs(logs, S) ==
  IF S = {} THEN 0
  ELSE LET p == CHOOSE q \in S : TRUE
       IN Len(logs[p]) + CountLogs(logs, S \ {p})

\* handleAction with the action's timestamp: validateTiming reads the player's
\* log and logAction appends to it; rateOk is the verdict of the rate limit,
\* which reads the server clock.
HandleActionTimed(p, kind, amount, timestamp, rateOk) ==
  LET clockOk == rateOk /\ validateTiming(actionLogs[p], timestamp)
  IN /\ CountLogs(actionLogs, LobbyIds) < MaxLogs
     /\ \E winnerIds \in VerdictChoices(game, p, kind, amount, clockOk) :
          ActionEffects(p, kind, amount, clockOk, winnerIds)
     /\ actionLogs' = [actionLogs EXCEPT
                         ![p] = logAction(@, timestamp,
                                          validateAction(game, p, kind, amount, clockOk))]

HandleChangeSeat(p, newSeatIndex) ==
  /\ game' = changeSeat(game, p, newSeatIndex)
  /\ nextHandTimeouts' = IF changeSeatOk(game, p, newSeatIndex)
                         THEN scheduleNextHand(game', nextHandTimeouts)
                         ELSE nextHandTimeouts
  /\ UNCHANGED <<history, playerSockets, disconnectTimeouts, lobby, actionLogs>>

\* handleWatchTable by an authenticated session: re-attaches a disconnected seat.
HandleWatchTable(p) ==
  LET idx == findIndex(game.players, p)
      reattach == idx # -1 /\ ~game.players[idx + 1].isConnected
  IN /\ disconnectTimeouts' = disconnectTimeouts \ {p}
     /\ game' = IF reattach THEN [game EXCEPT !.players[idx + 1].isConnected = TRUE]
                ELSE game
     /\ playerSockets' = IF reattach THEN playerSockets \cup {p} ELSE playerSockets
     /\ nextHandTimeouts' = IF reattach THEN scheduleNextHand(game', nextHandTimeouts)
                            ELSE nextHandTimeouts
     /\ UNCHANGED <<history, lobby, actionLogs>>

\* The timer of scheduleNextHand fires in showdown with two seats or more to deal.
StartsNextHand == game.stage = "showdown" /\ startHandOk(game)

\* The timer of scheduleNextHand fires.
NextHandTimerFires ==
  LET fired == [has |-> FALSE, live |-> nextHandTimeouts.live - 1]
  IN /\ nextHandTimeouts.live > 0
     /\ game' = IF game.stage = "showdown" THEN startHand(game) ELSE game
     /\ history' = IF StartsNextHand THEN startNewHand(history, game') ELSE history
     /\ nextHandTimeouts' = IF StartsNextHand THEN scheduleNextHand(game', fired)
                            ELSE fired
     /\ UNCHANGED <<playerSockets, disconnectTimeouts, lobby, actionLogs>>

NextHandTimer ==
  /\ StartsNextHand => MayStart
  /\ NextHandTimerFires

\* The timer on a table that plays hand after hand, up to MaxHistoryHands.
NextHandTimerLong ==
  /\ StartsNextHand => game.handNumber < MaxHistoryHands
  /\ NextHandTimerFires

\* joinTable of a further identity for the other table i: addPlayer seats it
\* when the table is below its cap.
HandleJoinOtherTable(i) ==
  LET joined == [lobby EXCEPT ![i].seats = @ + 1]
  IN /\ i \in 1..Len(lobby)
     /\ lobby[i].seats < lobby[i].maxPlayers
     /\ lobby' = Tail(ensureAvailableTable(
                        allTables(game, Len(game.players), joined),
                        lobby[i].gameType, lobby[i].stakeLabel))
     /\ Len(lobby') <= MaxLobby
     /\ UNCHANGED <<game, history, playerSockets, disconnectTimeouts, nextHandTimeouts,
                  actionLogs>>

\* handleCreateTable under the id of the other table i.
HandleCreateOtherTable(i, gameType) ==
  /\ i \in 1..Len(lobby)
  /\ lobby' = [lobby EXCEPT ![i] = tableEntry(gameType, "", 0)]
  /\ UNCHANGED <<game, history, playerSockets, disconnectTimeouts, nextHandTimeouts,
                  actionLogs>>

Next ==
  \/ \E p \in Roamers : HandleConnection(p)
  \/ \E p \in Roamers : HandleDisconnect(p)
  \/ \E p \in Roamers : GraceExpiry(p)
  \/ \E gt \in GameTypes, bt \in BettingTypes : HandleCreateTable(gt, bt)
  \/ \E p \in Ids : HandleJoinTable(p, BuyInOf(p), SeatOf(p))
  \/ \E p \in Ids : HandleLeaveTable(p)
  \/ HandleStartHand
  \/ \E p \in Ids, kind \in Kinds, clockOk \in BOOLEAN :
       \E amount \in (IF kind = "raise" THEN Amounts ELSE {0}) :
         HandleAction(p, kind, amount, clockOk)
  \/ \E p \in Movers, newSeatIndex \in SeatChoices : HandleChangeSeat(p, newSeatIndex)
  \/ \E p \in Roamers : HandleWatchTable(p)
  \/ NextHandTimer

Spec == Init /\ [][Next]_vars

\* A heads-up table whose two seats buy in for DeepBuyIn, deep enough for a
\* betting round to see more raises than the cap.
\* The server's timers fire once they are due: the grace timer of
\* handleDisconnect and the next-hand timer of scheduleNextHand. Nothing
\* obliges a client to send a message.
SpecTimers ==
  /\ Init
  /\ [][Next]_vars
  /\ WF_vars(NextHandTimer)
  /\ \A p \in Roamers : WF_vars(GraceExpiry(p))

\* The table is a no-limit or a pot-limit one.
InitDeep ==
  /\ \E bettingType \in DeepBettingTypes : game = createGame("texas", bettingType)
  /\ history = <<>>
  /\ playerSockets = {}
  /\ disconnectTimeouts = {}
  /\ nextHandTimeouts = [has |-> FALSE, live |-> 0]
  /\ lobby = <<>>
  /\ actionLogs = NoLogs

NextDeep ==
  \/ \E p \in DeepIds : \E buyIn \in DeepBuyIns(p) :
       HandleJoinTable(p, buyIn, SeatOf(p))
  \/ \E p \in DeepIds, kind \in Kinds, clockOk \in BOOLEAN :
       \E amount \in (IF kind = "raise" THEN 0..(DeepBuyIn + 1) ELSE {0}) :
         HandleAction(p, kind, amount, clockOk)

SpecDeep == InitDeep /\ [][NextDeep]_vars

\* A heads-up table that plays hand after hand: both seats buy in for
\* HistoryBuyIn, the seat to act folds, and the next-hand timer deals again.
HistoryIds == {"p1", "p3"}

NextHistory ==
  \/ \E p \in HistoryIds : HandleJoinTable(p, HistoryBuyIn, SeatOf(p))
  \/ \E p \in HistoryIds : HandleAction(p, "fold", 0, TRUE)
  \/ NextHandTimerLong

SpecHistory == Init /\ [][NextHistory]_vars

\* A texas or a courchevel table on which the identities of Spec join and act.
BoardGameTypes == {"texas", "courchevel"}

InitBoard ==
  /\ \E gameType \in BoardGameTypes : game = createGame(gameType, "NL")
  /\ history = <<>>
  /\ playerSockets = {}
  /\ disconnectTimeouts = {}
  /\ nextHandTimeouts = [has |-> FALSE, live |-> 0]
  /\ lobby = <<>>
  /\ actionLogs = NoLogs

NextBoard ==
  \/ \E p \in Ids : HandleJoinTable(p, BuyInOf(p), SeatOf(p))
  \/ \E p \in Ids, kind \in Kinds :
       \E amount \in (IF kind = "raise" THEN Amounts ELSE {0}) :
         HandleAction(p, kind, amount, TRUE)

SpecBoard == InitBoard /\ [][NextBoard]_vars

\* A table whose clients put the buy-in they like in joinTable.
JoinBuyIns == {-1, 1, 3}

NextBuyIn ==
  \/ \E p \in Ids, buyIn \in JoinBuyIns : HandleJoinTable(p, buyIn, SeatOf(p))
  \/ \E p \in Ids, kind \in Kinds :
       \E amount \in (IF kind = "raise" THEN Amounts ELSE {0}) :
         HandleAction(p, kind, amount, TRUE)

SpecBuyIn == Init /\ [][NextBuyIn]_vars

\* A system table of the stake NL2, blinds 0.01/0.02: its amounts count
\* hundredths of a unit.
CentsPerUnit == 100

InitCents ==
  /\ game = [createGame("texas", "NL") EXCEPT
               !.stakeLabel = "NL2",
               !.blinds = [small |-> SmallBlind, big |-> BigBlind,
                           denominator |-> CentsPerUnit]]
  /\ history = <<>>
  /\ playerSockets = {}
  /\ disconnectTimeouts = {}
  /\ nextHandTimeouts = [has |-> FALSE, live |-> 0]
  /\ lobby = <<>>
  /\ actionLogs = NoLogs

SpecCents == InitCents /\ [][NextDeep]_vars

\* A heads-up table whose clients send startHand at any time.
NextRestart ==
  \/ \E p \in DeepIds : HandleJoinTable(p, DeepBuyIn, SeatOf(p))
  \/ \E p \in DeepIds, kind \in {"fold", "check", "call"} :
       HandleAction(p, kind, 0, TRUE)
  \/ HandleStartHandLong

SpecRestart == Init /\ [][NextRestart]_vars

\* A heads-up table whose clients stamp their actions as they like.
TimedKinds == {"fold", "check", "call"}

Timestamps == {0, 100, 150}

NextTiming ==
  \/ \E p \in DeepIds : HandleJoinTable(p, DeepBuyIn, SeatOf(p))
  \/ \E p \in DeepIds, kind \in TimedKinds, timestamp \in Timestamps,
         rateOk \in BOOLEAN :
       HandleActionTimed(p, kind, 0, timestamp, rateOk)

SpecTiming == Init /\ [][NextTiming]_vars

\* A six-seat table created by the gateway (class royal, no stake label), the
\* only table of its class, and seven identities.
InitLobby ==
  /\ game = createGame("royal", "NL")
  /\ history = <<>>
  /\ playerSockets = {}
  /\ disconnectTimeouts = {}
  /\ nextHandTimeouts = [has |-> FALSE, live |-> 0]
  /\ lobby = <<>>
  /\ actionLogs = NoLogs

NextLobby ==
  \/ \E p \in LobbyIds : HandleJoinTable(p, BuyInOf(p), LobbySeatOf(p))
  \/ \E p \in LobbyLeavers : HandleLeaveTable(p)
  \/ \E p \in LobbyMovers, newSeatIndex \in LobbySeatChoices :
       HandleChangeSeat(p, newSeatIndex)
  \/ HandleStartHand
  \/ \E i \in 1..MaxLobby : HandleJoinOtherTable(i)
  \/ \E i \in 1..MaxLobby, gt \in LobbyGameTypes : HandleCreateOtherTable(i, gt)

SpecLobby == InitLobby /\ [][NextLobby]_vars

\* A heads-up table on the river with drawn cards: the two seats bought in for
\* DeepBuyIn, the hand was dealt by the second join and every street was called
\* or checked. The shuffle decides the cards: the board is one of Boards and
\* the hole cards are any disjoint draws from HolePool.
ShowdownIds == {"p1", "p3"}

ShowdownGameTypes == {"texas", "short_deck", "omaha_hi_lo"}

Boards(gameType) ==
  IF gameType = "omaha_hi_lo"
  THEN {<<Card(2, "c"), Card(3, "d"), Card(8, "h"), Card(13, "s"), Card(13, "d")>>}
  ELSE {<<Card(14, "d"), Card(13, "h"), Card(8, "c"), Card(7, "d"), Card(9, "c")>>,
        <<Card(13, "h"), Card(13, "d"), Card(9, "s"), Card(8, "s"), Card(6, "s")>>}

HolePool(gameType) ==
  IF gameType = "omaha_hi_lo"
  THEN <<Card(14, "s"), Card(4, "h"), Card(13, "h"), Card(12, "c"),
         Card(5, "d"), Card(9, "c"), Card(11, "h"), Card(7, "s")>>
  ELSE <<Card(14, "h"), Card(13, "c"), Card(8, "h"), Card(8, "d"), Card(10, "s"),
         Card(11, "d"), Card(12, "s"), Card(7, "s"), Card(14, "s"), Card(9, "h")>>

\* The cards of the pool at the places I, in the order of the pool.
RECURSIVE PickFrom(_, _, _)
PickFrom(pool, I, k) ==
  IF k = 0 THEN <<>>
  ELSE IF k \in I THEN Append(PickFrom(pool, I, k - 1), pool[k])
  ELSE PickFrom(pool, I, k - 1)

\* The seat to act calls what it owes or checks, until the river.
RECURSIVE CheckDown(_)
CheckDown(g) ==
  IF g.stage \notin {"preflop", "flop", "turn"} THEN g
  ELSE LET actor == g.players[g.activePlayerIndex + 1]
           kind == IF actor.currentRoundBet < g.currentHighBet THEN "call"
                   ELSE "check"
       IN CheckDown(processAction(g, actor.odId, kind, 0, TRUE, {}))

\* The table once both seats have joined: the second join deals the hand.
ShowdownTable(gameType) ==
  addPlayer(addPlayer(createGame(gameType, "NL"), "p1", DeepBuyIn, SeatOf("p1")).g,
            "p3", DeepBuyIn, SeatOf("p3")).g

InitShowdown ==
  \E gameType \in ShowdownGameTypes :
    \E board \in Boards(gameType) :
      \E I \in getCombinations(1..Len(HolePool(gameType)), cardsPerPlayer(gameType)) :
        \E J \in getCombinations((1..Len(HolePool(gameType))) \ I,
                                 cardsPerPlayer(gameType)) :
          LET pool == HolePool(gameType)
              dealt == ShowdownTable(gameType)
              river == CheckDown(dealt)
          IN /\ game = [river EXCEPT
                          !.communityCards = board,
                          !.players[1].holeCards = PickFrom(pool, I, Len(pool)),
                          !.players[2].holeCards = PickFrom(pool, J, Len(pool))]
             /\ history = startNewHand(<<>>, dealt)
             /\ playerSockets = ShowdownIds
             /\ disconnectTimeouts = {}
             /\ nextHandTimeouts = [has |-> FALSE, live |-> 0]
             /\ lobby = <<>>
             /\ actionLogs = NoLogs

\* handleAction on a table with drawn cards: the verdict is the evaluator's.
HandleActionDrawn(p, kind) ==
  LET applied == applyAction(game, p, kind, 0)
      winnerIds == IF actionAccepted(game, p, kind, 0, TRUE)
                      /\ reachesShowdown(applied)
                      /\ Len(NotFolded(applied.players)) >= 2
                   THEN scoreWinners(applied.players, applied.communityCards,
                                     applied.gameType)
                   ELSE {}
  IN ActionStep(p, kind, 0, TRUE, winnerIds)

NextShowdown ==
  \/ \E p \in ShowdownIds : HandleActionDrawn(p, "check")
  \/ \E p \in ShowdownIds : HandleActionDrawn(p, "fold")

SpecShowdown == InitShowdown /\ [][NextShowdown]_vars

\* ------------------------------------------------------------ properties
\* The record of the hand in progress: HandHistoryService keeps, for every hand
\* started, the seats dealt in with their stacks before the blinds.
currentHand == history[Len(history)]

dealtSeats == SelectSeq(game.players, LAMBDA p : p.odId \in IdsOf(currentHand.players))

RaiseAmounts(kind) == IF kind = "raise" THEN Amounts ELSE {0}

StageOrder(stage) ==
  CASE stage = "waiting" -> 0
    [] stage = "preflop" -> 1
    [] stage = "flop" -> 2
    [] stage = "turn" -> 3
    [] stage = "river" -> 4
    [] stage = "showdown" -> 5

RECURSIVE SumCapped(_, _)
SumCapped(s, L) ==
  IF s = <<>> THEN 0 ELSE Min(Head(s).totalBetThisHand, L) + SumCapped(Tail(s), L)

RECURSIVE MaxRoundBet(_)
MaxRoundBet(s) ==
  IF s = <<>> THEN 0 ELSE Max(Head(s).currentRoundBet, MaxRoundBet(Tail(s)))

\* C1: chip conservation during a hand. In every state of a betting stage the
\* stacks of the seats dealt into the current hand plus the pot equal the sum
\* of those seats' stacks when the hand started.
ChipConservation ==
  game.stage \in Betting =>
    SumStacks(dealtSeats) + game.pot = SumStacks(currentHand.players)

\* C2: in every state of a hand in progress the pot is the sum of
\* totalBetThisHand over all the seats at the table, folded and disconnected
\* seats included.
PotIsSumOfBets ==
  game.stage \in Betting => game.pot = SumTotalBets(game.players)

\* A hand in progress whose pot holds more than the blinds and the bet of a
\* seat that has left the table.
PotWithDepartedSeat ==
  /\ game.stage \in Betting
  /\ game.pot > SmallBlind + BigBlind
  /\ \E i \in 1..Len(game.players) :
       /\ game.players[i].folded
       /\ ~game.players[i].isConnected
       /\ game.players[i].totalBetThisHand > 0

\* C3: side pots. At a showdown with several non-folded seats a seat whose
\* contribution to the hand is L is awarded at most the sum over all seats of
\* min(totalBetThisHand, L).
AwardWithinContribution ==
  [][\A p \in Ids, kind \in Kinds : \A amount \in RaiseAmounts(kind) :
       \A winnerIds \in VerdictChoices(game, p, kind, amount, TRUE) :
         LET applied == applyAction(game, p, kind, amount)
             handWinners == award(applied, winnerIds).handWinners
         IN (/\ actionAccepted(game, p, kind, amount, TRUE)
             /\ ActionStep(p, kind, amount, TRUE, winnerIds)
             /\ endsHand(applied)
             /\ Len(NotFolded(applied.players)) >= 2)
            => \A i \in 1..Len(handWinners) :
                 LET seat == applied.players[findIndex(applied.players,
                                                       handWinners[i].odId) + 1]
                 IN handWinners[i].amount
                      <= SumCapped(applied.players, seat.totalBetThisHand)]_vars

\* C4: when a hand ends the amounts awarded sum exactly to the pot of that
\* moment: every hand record carries a pot equal to the sum of its awards.
AwardsSumToPot ==
  \A i \in 1..Len(history) : SumAmounts(history[i].winners) = history[i].pot

\* C5: outside showdown the projection of the table for any viewer (a seated
\* player, an identity without a seat, the spectator) holds no hole card of a
\* seat other than the viewer's: every players[i].holeCards is empty and
\* myHoleCards holds only cards of the viewer's seat.
NoHoleCardLeak ==
  game.stage # "showdown" =>
    \A viewer \in Ids \cup {Spectator} :
      LET view == getClientState(game, viewer)
      IN /\ \A i \in 1..Len(view.players) : view.players[i].holeCards = <<>>
         /\ \A k \in 1..Len(game.players) :
              game.players[k].odId # viewer =>
                \A c \in 1..Len(game.players[k].holeCards) :
                  \A m \in 1..Len(view.myHoleCards) :
                    view.myHoleCards[m] # game.players[k].holeCards[c]

\* A river on which two connected seats still hold cards and one of them is
\* shown its own.
RiverWithTwoHands ==
  /\ game.stage = "river"
  /\ \E i, k \in 1..Len(game.players) :
       /\ i # k
       /\ game.players[i].isConnected /\ ~game.players[i].folded
       /\ game.players[k].isConnected /\ ~game.players[k].folded
       /\ game.players[i].holeCards # <<>>
       /\ game.players[k].holeCards # <<>>
       /\ getClientState(game, game.players[i].odId).myHoleCards
            = game.players[i].holeCards

\* C6: raisesThisRound is at most MAX_RAISES_PER_ROUND in every reachable
\* state, whatever mix of raise and allin actions a betting round sees.
RaisesWithinCap == game.raisesThisRound <= MAX_RAISES_PER_ROUND

\* C7: in every state of a betting stage currentHighBet is the maximum of
\* currentRoundBet over the non-folded seats.
HighBetIsMaxRoundBet ==
  game.stage \in Betting =>
    game.currentHighBet = MaxRoundBet(NotFolded(game.players))

\* A step of handleAction whose action processAction accepts.
AcceptedAction ==
  \E p \in Ids, kind \in Kinds : \E amount \in RaiseAmounts(kind) :
    /\ actionAccepted(game, p, kind, amount, TRUE)
    /\ HandleAction(p, kind, amount, TRUE)

\* C8, as stated: after any accepted action the stage is not earlier than
\* before it in the order waiting, preflop, flop, turn, river, showdown.
StageNeverEarlier ==
  [][\/ StageOrder(game'.stage) >= StageOrder(game.stage)
     \/ ~AcceptedAction]_vars

\* C8: after any accepted action the stage is not earlier than before it in
\* the order waiting, preflop, flop, turn, river, showdown, unless the action
\* ended the hand and fewer than two seats survive it: the table is then back
\* in waiting.
StageNeverEarlierUnlessEmptied ==
  [][\/ StageOrder(game'.stage) >= StageOrder(game.stage)
     \/ game'.stage = "waiting" /\ Len(game'.players) < 2
     \/ ~AcceptedAction]_vars

\* The table back in waiting after a hand that an action ended: its record has
\* its winner, and the one seat left holds every chip of the two seats dealt in.
BackToWaitingAfterHand ==
  /\ game.stage = "waiting"
  /\ Len(history) = 1
  /\ history[1].winners # <<>>
  /\ Len(game.players) = 1
  /\ game.players[1].isConnected
  /\ game.players[1].odStack = SumStacks(history[1].players)

\* C9: the hand number of the table never decreases.
HandNumberNeverDecreases ==
  [][game'.handNumber >= game.handNumber]_vars

\* C10: processAction accepts an action only if the stage is a betting stage
\* and the actor is the seat at activePlayerIndex and is neither folded nor
\* all-in; so a fold sent by a seat that has folded is rejected.
AcceptsOnlyActiveSeat ==
  \A p \in Ids, kind \in Kinds : \A amount \in RaiseAmounts(kind) :
    LET idx == findIndex(game.players, p)
    IN /\ actionAccepted(game, p, kind, amount, TRUE) =>
            /\ game.stage \in Betting
            /\ idx # -1
            /\ idx = game.activePlayerIndex
            /\ ~game.players[idx + 1].folded
            /\ ~game.players[idx + 1].isAllIn
       /\ (idx # -1 /\ game.players[idx + 1].folded) =>
            ~actionAccepted(game, p, "fold", 0, TRUE)

\* A betting stage in which one seat has folded, so that its fold is rejected,
\* while the action of another is accepted.
FoldedSeatBesideActiveSeat ==
  /\ game.stage \in Betting
  /\ \E p, q \in Ids :
       /\ actionAccepted(game, p, "call", 0, TRUE)
       /\ findIndex(game.players, q) # -1
       /\ game.players[findIndex(game.players, q) + 1].folded
       /\ game.players[findIndex(game.players, q) + 1].isConnected

\* A step of handleAction for an action that processAction rejects.
RejectedAction ==
  \E p \in Ids, kind \in Kinds, clockOk \in BOOLEAN :
    \E amount \in (IF kind = "raise" THEN 0..(DeepBuyIn + 1) ELSE {0}) :
      /\ ~actionAccepted(game, p, kind, amount, clockOk)
      /\ HandleAction(p, kind, amount, clockOk)

\* C11: whenever processAction rejects an action (out of turn, illegal check,
\* raise below the minimum, above the pot limit, beyond the stack, raise cap
\* reached, rate or timing violation) the table state is exactly what it was
\* before the call.
RejectionChangesNothing ==
  [][game' = game \/ ~RejectedAction]_vars

\* A betting round at the raise cap in which the seat to act has the chips for
\* a further raise: the raise passes every guard but the cap.
RaiseRefusedAtCap ==
  /\ game.stage \in Betting
  /\ game.raisesThisRound >= MAX_RAISES_PER_ROUND
  /\ \E p \in Ids, amount \in 0..(DeepBuyIn + 1) :
       /\ validateAction(game, p, "raise", amount, TRUE)
       /\ engineGuards(game, p)
       /\ ~kindGuards(game, p, "raise", amount)
       /\ ~actionAccepted(game, p, "raise", amount, TRUE)

\* The identity holds a seat that is marked disconnected.
AwaySeat(p) ==
  /\ findIndex(game.players, p) # -1
  /\ ~game.players[findIndex(game.players, p) + 1].isConnected

StartsHeadsUpHand ==
  /\ game'.handNumber = game.handNumber + 1
  /\ game'.stage = "preflop"
  /\ Len(game'.players) = 2

\* What the seat at playerIndex has put in as a blind of the given amount: the
\* amount, or the whole stack it had when that was less.
PostedBlind(g, playerIndex, amount) ==
  g.players[playerIndex + 1].currentRoundBet =
    Min(amount, g.players[playerIndex + 1].odStack
                  + g.players[playerIndex + 1].currentRoundBet)

\* C13: in a hand started with exactly two seats, the seat holding the dealer
\* button posts the small blind and the other seat posts the big blind.
HeadsUpDealerPostsSmallBlind ==
  [][\/ ~StartsHeadsUpHand
     \/ /\ PostedBlind(game', game'.dealerIndex, SmallBlind)
        /\ PostedBlind(game', (game'.dealerIndex + 1) % 2, BigBlind)]_vars

\* A step of handleAction whose action is an accepted raise to the target T.
AcceptedRaise(T) ==
  \E p \in Ids, clockOk \in BOOLEAN :
    /\ actionAccepted(game, p, "raise", T, clockOk)
    /\ HandleAction(p, "raise", T, clockOk)

\* The highest bet of the street below the level L.
RECURSIVE MaxRoundBetBelow(_, _)
MaxRoundBetBelow(s, L) ==
  IF s = <<>> THEN 0
  ELSE IF Head(s).currentRoundBet < L
       THEN Max(Head(s).currentRoundBet, MaxRoundBetBelow(Tail(s), L))
       ELSE MaxRoundBetBelow(Tail(s), L)

\* The size of the last raise increment made on this street, read off the bets
\* on the table: the step from the highest bet below currentHighBet up to
\* currentHighBet; 0 while nobody has raised on this street.
StreetIncrement ==
  IF game.raisesThisRound = 0 THEN 0
  ELSE game.currentHighBet - MaxRoundBetBelow(game.players, game.currentHighBet)

\* C14: every accepted raise to target T has T > currentHighBet and
\* T - currentHighBet at least the size of the last raise increment made on
\* this street (blinds 1/2: after a raise to 6, a re-raise to 9 is rejected and
\* a re-raise to 10 is accepted).
RaiseAtLeastLastIncrement ==
  [][\A T \in 0..(DeepBuyIn + 1) :
       \/ /\ T > game.currentHighBet
          /\ T - game.currentHighBet >= StreetIncrement
       \/ ~AcceptedRaise(T)]_vars

\* Blinds 1/2, a raise to 6 on the table: the seat to act is refused a re-raise
\* to 9 and allowed one to 10.
ReraiseToNineRefusedToTenAllowed ==
  /\ game.stage = "preflop"
  /\ game.currentHighBet = 6
  /\ StreetIncrement = 4
  /\ \E p \in Ids :
       /\ ~actionAccepted(game, p, "raise", 9, TRUE)
       /\ actionAccepted(game, p, "raise", 10, TRUE)

\* A step that starts a hand.
StartsHand ==
  /\ game'.handNumber = game.handNumber + 1
  /\ game'.stage = "preflop"

\* C15: immediately after startHand lastRaiseAmount equals the big blind, and a
\* preflop raise by less than a big blind is rejected.
PreflopRaiseAtLeastBigBlind ==
  [][/\ StartsHand => game'.lastRaiseAmount = BigBlind
     /\ \A T \in 0..(DeepBuyIn + 1) :
          \/ game.stage # "preflop"
          \/ T - game.currentHighBet >= BigBlind
          \/ ~AcceptedRaise(T)]_vars

\* A step in which the seat of b goes all-in above currentHighBet by an
\* increment smaller than the minimum raise in force.
UnderRaiseAllIn(b) ==
  /\ game.stage \in Betting
  /\ actionAccepted(game, b, "allin", 0, TRUE)
  /\ game.lastRaiseAmount > 0
  /\ LET player == game.players[findIndex(game.players, b) + 1]
     IN /\ player.currentRoundBet + player.odStack > game.currentHighBet
        /\ player.currentRoundBet + player.odStack - game.currentHighBet
             < game.lastRaiseAmount
  /\ HandleAction(b, "allin", 0, TRUE)

\* The seat of a had acted on the bet in force and has not folded.
ActedOnBet(a) ==
  /\ findIndex(game.players, a) # -1
  /\ LET player == game.players[findIndex(game.players, a) + 1]
     IN /\ player.hasActed
        /\ ~player.folded
        /\ ~player.isAllIn
        /\ player.currentRoundBet = game.currentHighBet

\* C16: when a seat goes all-in for more than currentHighBet but by less than
\* the current minimum raise, the all-in is accepted, yet a seat that had
\* already acted on the previous bet cannot raise again: on its next turn it
\* can only call or fold.
UnderRaiseDoesNotReopen ==
  [][\A a \in Ids : \A b \in Ids \ {a} :
       \/ ~ActedOnBet(a)
       \/ ~UnderRaiseAllIn(b)
       \/ \A T \in 0..(DeepBuyIn + 1) :
            ~actionAccepted(game', a, "raise", T, TRUE)]_vars

\* The most a seat may raise to on a pot-limit table: the pot plus the high bet
\* plus what the seat has to call.
PotLimitOf(p) ==
  game.pot + game.currentHighBet
    + (game.currentHighBet - game.players[findIndex(game.players, p) + 1].currentRoundBet)

\* A step of handleAction whose action is an accepted raise of p to the target T.
AcceptedRaiseBy(p, T) ==
  \E clockOk \in BOOLEAN :
    /\ actionAccepted(game, p, "raise", T, clockOk)
    /\ HandleAction(p, "raise", T, clockOk)

\* C17: on a pot-limit table every accepted raise to target T has
\* T <= pot + currentHighBet + toCall, the three taken just before the raise is
\* applied.
RaiseWithinPotLimit ==
  [][\A p \in Ids : \A T \in 0..(DeepBuyIn + 1) :
       \/ game.bettingType # "PL"
       \/ findIndex(game.players, p) = -1
       \/ T <= PotLimitOf(p)
       \/ ~AcceptedRaiseBy(p, T)]_vars

\* A pot-limit table where the seat to act has the chips for a raise one above
\* the pot limit: that raise is refused, the raise to the limit is allowed.
PotSizedRaiseIsTheMost ==
  /\ game.bettingType = "PL"
  /\ game.stage \in Betting
  /\ \E p \in Ids :
       /\ findIndex(game.players, p) # -1
       /\ PotLimitOf(p) + 1 <= game.players[findIndex(game.players, p) + 1].odStack
                                 + game.players[findIndex(game.players, p) + 1].currentRoundBet
       /\ actionAccepted(game, p, "raise", PotLimitOf(p), TRUE)
       /\ ~actionAccepted(game, p, "raise", PotLimitOf(p) + 1, TRUE)

\* It is the turn of the seat of p on the street st.
TurnOf(p, st) ==
  /\ game.stage = st
  /\ findIndex(game.players, p) # -1
  /\ findIndex(game.players, p) = game.activePlayerIndex

\* C18: turn timer. Whenever a hand is in a betting stage and the seat to act
\* submits no action, the server eventually acts for it (check if nothing is to
\* call, otherwise fold), so the turn passes without any input from that seat.
TurnPassesWithoutInput ==
  \A p \in Ids : \A st \in Betting : TurnOf(p, st) ~> ~TurnOf(p, st)

\* C19: for each table at most one next-hand timer is pending at any time,
\* however many broadcasts occur while the table is in showdown.
OneNextHandTimer ==
  nextHandTimeouts.live <= 1

\* A showdown with its timer pending and a seat marked disconnected: endHand
\* purged the seats that were disconnected, so the seat was marked, and the
\* table broadcast again, during the showdown.
BroadcastDuringShowdown ==
  /\ game.stage = "showdown"
  /\ nextHandTimeouts.has
  /\ nextHandTimeouts.live = 1
  /\ \E k \in 1..Len(game.players) : ~game.players[k].isConnected

\* C20: when a table leaves showdown other than by its next-hand timer firing,
\* the pending timer is cancelled: no next-hand timer is pending while the
\* stage is not showdown.
NoTimerOutsideShowdown ==
  nextHandTimeouts.live > 0 => game.stage = "showdown"

\* A step of handleAction for a message of p, accepted or not.
ActionMessageOf(p) ==
  \E kind \in Kinds, clockOk \in BOOLEAN : \E amount \in RaiseAmounts(kind) :
    HandleAction(p, kind, amount, clockOk)

\* C21: any action message arriving from a player cancels that player's pending
\* disconnect grace timer, so that a player who keeps sending actions through a
\* live session is never folded or removed by the expiry of the grace timer.
ActionCancelsGraceTimer ==
  [][\A p \in Ids :
       \/ p \notin disconnectTimeouts
       \/ p \notin disconnectTimeouts'
       \/ ~ActionMessageOf(p)]_vars

\* A step that calls removePlayer for p: a leaveTable message or the expiry of
\* the grace timer.
RemovesSeatOf(p) ==
  HandleLeaveTable(p) \/ GraceExpiry(p)

\* C22: removeSeat called while the stage is waiting or showdown removes the
\* seat from the table at once; only during preflop, flop, turn or river is the
\* seat kept, marked folded and disconnected.
RemoveOutsideHandFreesSeat ==
  [][\A p \in Ids :
       \/ game.stage \in Betting
       \/ findIndex(game.players, p) = -1
       \/ findIndex(game'.players, p) = -1
       \/ ~RemovesSeatOf(p)]_vars

\* No two seats share a seatIndex and no identity holds two seats.
SeatsDistinct(players) ==
  \A i, j \in 1..Len(players) :
    i # j => /\ players[i].seatIndex # players[j].seatIndex
             /\ players[i].odId # players[j].odId

SeatTaken(players, seatIndex) ==
  \E k \in 1..Len(players) : players[k].seatIndex = seatIndex

\* The seat a newcomer asking for seatIndex is given on a table below its cap:
\* seatIndex itself when free, otherwise the lowest free index.
SeatGiven(players, seatIndex, given) ==
  IF SeatTaken(players, seatIndex)
  THEN /\ ~SeatTaken(players, given)
       /\ \A i \in 0..(given - 1) : SeatTaken(players, i)
  ELSE given = seatIndex

\* The outcome of a joinTable step that seats an identity without a seat: the
\* table was below its cap and the seat is the one of SeatGiven.
JoinSeatsNewcomer(p) ==
  LET idx == findIndex(game'.players, p)
  IN idx # -1 =>
       /\ Len(game.players) < game.maxPlayers
       /\ SeatGiven(game.players, LobbySeatOf(p), game'.players[idx + 1].seatIndex)

\* On a table at its seat cap addPlayer fails for every identity without a seat
\* and leaves the table as it is.
CapRefuses(g) ==
  Len(g.players) >= g.maxPlayers =>
    \A p \in LobbyIds :
      findIndex(g.players, p) = -1 =>
        /\ ~addPlayer(g, p, BuyInOf(p), LobbySeatOf(p)).ok
        /\ addPlayer(g, p, BuyInOf(p), LobbySeatOf(p)).g = g

\* C23: after any sequence of addSeat, removeSeat, changeSeat and startHand no
\* two seats share a seatIndex and no identity holds more than one seat; addSeat
\* on a taken seatIndex assigns the lowest free index, and fails when the table
\* is at its seat cap.
SeatingKeepsSeatsDistinct ==
  [][/\ SeatsDistinct(game'.players)
     /\ CapRefuses(game')
     /\ \A p \in LobbyIds :
          \/ findIndex(game.players, p) # -1
          \/ JoinSeatsNewcomer(p)
          \/ ~HandleJoinTable(p, BuyInOf(p), LobbySeatOf(p))]_vars

\* The table at its seat cap, one identity left without a seat, and a seat that
\* was given in place of the taken seat its holder asked for.
FullTableWithGivenSeat ==
  /\ Len(game.players) = game.maxPlayers
  /\ \E p \in LobbyIds : findIndex(game.players, p) = -1
  /\ \E p \in LobbyIds \ LobbyMovers :
       /\ findIndex(game.players, p) # -1
       /\ game.players[findIndex(game.players, p) + 1].seatIndex # LobbySeatOf(p)

\* Some table of the class (gameType, stakeLabel) has fewer seats than its cap.
ClassAvailable(tables, gameType, stakeLabel) ==
  \E i \in 1..Len(tables) :
    /\ tables[i].gameType = gameType
    /\ tables[i].stakeLabel = stakeLabel
    /\ tables[i].seats < tables[i].maxPlayers

\* Every class that has a table has one with a free seat.
EveryClassAvailable(tables) ==
  \A i \in 1..Len(tables) :
    ClassAvailable(tables, tables[i].gameType, tables[i].stakeLabel)

\* The tables after the step.
TablesAfter == allTables(game', Len(game'.players), lobby')

\* A joinTable step that seats p, who had no seat, on the table of the model.
SeatsNewcomer(p) ==
  /\ findIndex(game.players, p) = -1
  /\ findIndex(game'.players, p) # -1
  /\ HandleJoinTable(p, BuyInOf(p), LobbySeatOf(p))

HistoryWithinLimit == Len(history) <= HISTORY_LIMIT

\* The step ends a hand of the history with two winners or more.
EndsHandSplit ==
  /\ Len(history) > 0
  /\ Len(history') = Len(history)
  /\ history[Len(history)].winners = <<>>
  /\ Len(history'[Len(history')].winners) >= 2

\* How many seats clockwise from the seat after the dealer the seat of p is,
\* on the table before the step.
ClockwiseFromDealer(p) ==
  LET dealerSeat == game.players[game.dealerIndex + 1].seatIndex
      seat == game.players[findIndex(game.players, p) + 1].seatIndex
  IN (seat - dealerSeat - 1) % game.maxPlayers

\* C26: when the pot is split among n tied winners each receives
\* floor(pot / n) and the whole remainder goes to the tied winner first in seat
\* order clockwise from the seat after the dealer.
RemainderToFirstClockwise ==
  [][\/ ~EndsHandSplit
     \/ LET rec == history'[Len(history')]
            n == Len(rec.winners)
            share == rec.pot \div n
            tied == {rec.winners[i].odId : i \in 1..n}
        IN \A i \in 1..n :
             LET first == \A q \in tied :
                            ClockwiseFromDealer(rec.winners[i].odId)
                              <= ClockwiseFromDealer(q)
             IN rec.winners[i].amount =
                  share + (IF first THEN rec.pot - share * n ELSE 0)]_vars

\* p folds, the fold is accepted and leaves one seat that has not folded.
FoldLeavesOne(p) ==
  /\ actionAccepted(game, p, "fold", 0, TRUE)
  /\ Len(NotFolded(applyAction(game, p, "fold", 0).players)) = 1
  /\ HandleAction(p, "fold", 0, TRUE)

\* The seat left by the fold of p.
LastStanding(p) == NotFolded(applyAction(game, p, "fold", 0).players)[1]

\* C27: when a hand ends because all seats but one have folded, the remaining
\* seat wins the entire pot and no projection for another viewer or for
\* spectators contains its hole cards.
FoldWinShowsNoCards ==
  [][\A p \in Ids :
       \/ ~FoldLeavesOne(p)
       \/ LET w == LastStanding(p)
              rec == history'[Len(history')]
          IN /\ rec.winners = <<[odId |-> w.odId, amount |-> rec.pot]>>
             /\ rec.pot = applyAction(game, p, "fold", 0).pot
             /\ \A viewer \in (Ids \cup {Spectator}) \ {w.odId} :
                  LET view == getClientState(game', viewer)
                  IN \A i \in 1..Len(view.players) :
                       view.players[i].odId = w.odId =>
                         view.players[i].holeCards = <<>>]_vars

\* The step takes a river with drawn cards to a showdown between two seats or
\* more that have not folded.
EndsInShowdown ==
  /\ game.stage = "river"
  /\ game'.stage = "showdown"
  /\ Len(NotFolded(game'.players)) >= 2

\* The best high hand and the low hand of seat i at that showdown.
HandOf(i) ==
  evaluateHand(game.players[i].holeCards, game.communityCards, game.gameType)

LowOf(i) == evaluateLowHand(game.players[i].holeCards, game.communityCards)

\* The record of the hand the step ended, and what it awards to the seats S.
EndedHand == history'[Len(history')]

AwardedTo(S) == SumAmounts(SelectSeq(EndedHand.winners, LAMBDA w : w.odId \in S))

Awarded(i) ==
  \E k \in 1..Len(EndedHand.winners) :
    EndedHand.winners[k].odId = game.players[i].odId

\* C28: on a hi-lo table, when a seat that has not folded holds a qualifying
\* low at showdown, the high winners receive half of the pot and the low
\* winners the other half (a seat that wins both sides takes both shares); the
\* high side takes the whole pot only when no low qualifies.
HiLoSplitsPot ==
  [][\/ ~EndsInShowdown
     \/ game.gameType # "omaha_hi_lo"
     \/ LET seats == {i \in 1..Len(game.players) : ~game.players[i].folded}
            lowHolders == {i \in seats : LowOf(i).qualifies}
            lowWinners == {game.players[i].odId :
                             i \in {k \in lowHolders :
                                      \A m \in lowHolders :
                                        ~better(LowOf(m).values, LowOf(k).values)}}
            highWinners == scoreWinners(game.players, game.communityCards,
                                        game.gameType)
            pot == EndedHand.pot
        IN IF lowHolders = {} THEN AwardedTo(highWinners) = pot
           ELSE /\ AwardedTo(highWinners \cup lowWinners) = pot
                /\ highWinners \cap lowWinners = {} =>
                     /\ AwardedTo(highWinners) = pot - pot \div 2
                     /\ AwardedTo(lowWinners) = pot \div 2]_vars

\* C29: for any two seats that have not folded, if the best hand of one is of
\* a strictly higher category than the best hand of the other, the seat with
\* the lower category is not among the winners.
LowerCategoryNeverWins ==
  [][\/ ~EndsInShowdown
     \/ \A i, k \in 1..Len(game.players) :
          HandOf(i).rank > HandOf(k).rank => ~Awarded(k)]_vars

\* C30: in the short-deck variant every flush beats every full house at
\* showdown; in every other variant every full house beats every flush.
FlushAgainstFullHouse ==
  [][\/ ~EndsInShowdown
     \/ \A i, k \in 1..Len(game.players) :
          HandOf(i).description = "Flush" /\ HandOf(k).description = "Full House" =>
            IF game.gameType = "short_deck"
            THEN Awarded(i) /\ ~Awarded(k)
            ELSE Awarded(k) /\ ~Awarded(i)]_vars

\* The last entry of a log that was logged valid, as a set of at most one.
LastValid(logs) ==
  {logs[i] : i \in {k \in 1..Len(logs) :
                      /\ logs[k].isValid
                      /\ \A m \in (k + 1)..Len(logs) : ~logs[m].isValid}}

\* The step accepts an action of p: the table changes and the log of p gains
\* a valid entry.
AcceptsTimed(p) ==
  /\ game' # game
  /\ Len(actionLogs'[p]) = Len(actionLogs[p]) + 1
  /\ actionLogs'[p][Len(actionLogs'[p])].isValid

\* C31: an accepted action of a player is stamped at least 100 ms after the
\* same player's previous accepted action, whatever rejected actions were
\* submitted in between.
TimingFloor ==
  [][\A p \in DeepIds :
       \/ ~AcceptsTimed(p)
       \/ \A prev \in LastValid(actionLogs[p]) :
            actionLogs'[p][Len(actionLogs'[p])].timestamp - prev.timestamp
              >= MIN_ACTION_TIME_MS]_vars

InHand(g) == g.stage \in {"preflop", "flop", "turn", "river"}

\* C32: a new hand begins only from stage waiting or showdown: no step taken
\* while a hand is in preflop, flop, turn or river starts another hand, lowers
\* the pot or drops a seat unless it ends the hand with its winners recorded.
HandStartsOnlyBetweenHands ==
  [][InHand(game) =>
       /\ game'.handNumber = game.handNumber
       /\ IF InHand(game')
          THEN game'.pot >= game.pot /\ Len(game'.players) >= Len(game.players)
          ELSE history'[Len(history')].winners # <<>>]_vars

\* C33: no reachable state has stage preflop, flop, turn or river with fewer
\* than two seats that have not folded.
HandEndsWithLastFold == InHand(game) => Len(NotFolded(game.players)) >= 2

\* C34: in every reachable state with stage preflop, flop, turn or river,
\* activePlayerIndex designates an existing seat that is neither folded nor
\* all-in.
ActiveSeatCanAct ==
  InHand(game) =>
    /\ game.activePlayerIndex \in 0..(Len(game.players) - 1)
    /\ ~game.players[game.activePlayerIndex + 1].folded
    /\ ~game.players[game.activePlayerIndex + 1].isAllIn

\* The accepted action of p takes the hand to showdown with two seats or more
\* that have not folded.
ShowsDown(p, kind, amount) ==
  /\ actionAccepted(game, p, kind, amount, TRUE)
  /\ endsHand(applyAction(game, p, kind, amount))
  /\ Len(NotFolded(applyAction(game, p, kind, amount).players)) >= 2
  /\ HandleAction(p, kind, amount, TRUE)

\* C35: whenever a hand reaches showdown with two or more seats that have not
\* folded, exactly five community cards are on the board.
ShowdownHasFiveCards ==
  [][\A p \in Ids, kind \in Kinds, amount \in Amounts \cup {0} :
       \/ Len(game'.communityCards) = 5
       \/ ~ShowsDown(p, kind, amount)]_vars

\* A courchevel hand shown down on five cards with a seat all-in: the board
\* was run out.
CourchevelRunOut ==
  /\ game.gameType = "courchevel"
  /\ game.stage = "showdown"
  /\ Len(game.communityCards) = 5
  /\ Len(NotFolded(game.players)) >= 2
  /\ \E i \in 1..Len(game.players) : game.players[i].isAllIn

\* C36: the winners field is set only while the stage is showdown: in every
\* other stage the state and its projections carry no winners.
WinnersOnlyInShowdown ==
  game.stage # "showdown" =>
    /\ game.winners = Undefined
    /\ \A viewer \in Ids \cup {Spectator} :
         getClientState(game, viewer).winners = Undefined

\* C37: every seat's stack is at least 0 in every reachable state.
StacksNeverNegative ==
  \A i \in 1..Len(game.players) : game.players[i].odStack >= 0

\* The identity on seat index i of table g, "" when i designates no seat.
OnIndex(g, i) == IF i \in 0..(Len(g.players) - 1) THEN g.players[i + 1].odId ELSE ""

\* The step seats p, who had no seat, during a hand.
SeatsDuringHand(p) ==
  /\ InHand(game)
  /\ findIndex(game.players, p) = -1
  /\ findIndex(game'.players, p) # -1

\* C38: seating a new player while a hand is in progress leaves the player
\* whose turn it is, the holder of the dealer button and the set of players
\* contesting the pot as they were; the newcomer holds no cards and is not
\* among those who can act in the hand or win it.
SeatingLeavesHandAlone ==
  [][\A p \in Ids :
       SeatsDuringHand(p) =>
         /\ OnIndex(game', game'.activePlayerIndex)
              = OnIndex(game, game.activePlayerIndex)
         /\ OnIndex(game', game'.dealerIndex) = OnIndex(game, game.dealerIndex)
         /\ IdsOf(NotFolded(game'.players)) = IdsOf(NotFolded(game.players))
         /\ game'.players[findIndex(game'.players, p) + 1].holeCards = <<>>]_vars

\* C39: when a pot is split among n tied winners, the awards of any two of
\* them differ by less than n chips of the smallest denomination in play.
SplitAwardsNearlyEqual ==
  [][\/ ~EndsHandSplit
     \/ LET rec == history'[Len(history')]
            n == Len(rec.winners)
        IN \A i, k \in 1..n :
             rec.winners[i].amount - rec.winners[k].amount < n]_vars

\* C40: creating a table never replaces an existing one: the seats, the stacks
\* and the pot of a table in play are the same after a step that creates a
\* table under its id.
CreationKeepsTable ==
  [][(/\ InHand(game)
      /\ \E gt \in GameTypes, bt \in BettingTypes : game' = createGame(gt, bt))
       => /\ game'.players = game.players
          /\ game'.pot = game.pot]_vars

====
